---- MODULE Spec2Model ----
(***************************************************************************)
(* Model of the vocabulary trainer of src/src/main.tsx (the persistent     *)
(* trainer: WORDS, loadStore, saveStore and the App component's handlers). *)
(*                                                                         *)
(* JavaScript numbers are modelled as integers in units of 1/Denom, so     *)
(* that a stored index such as 1.5 is a value of the model.  null as a     *)
(* Status is written "unset".  The text kept in localStorage is modelled   *)
(* by the JSON tree it parses to (or by the way it fails to parse).        *)
(*                                                                         *)
(* Spec starts App on any stored item in a browser whose localStorage      *)
(* works; SpecFailing starts it on a store not written yet in a browser    *)
(* whose getItem and setItem may throw.                                    *)
(*                                                                         *)
(* The fetch-based trainer of src/src/App.tsx (parseWords, loadTxt and its *)
(* own App component) is a second program with its own state; SpecFetch    *)
(* runs it while the persistent trainer stays as it was mounted.           *)
(***************************************************************************)
EXTENDS Integers, Sequences, FiniteSets, TLC

\* ---------------------------------------------------------------- bounds
NumWords == 3
Denom == 2
MaxFailures == 1
MaxLines == 3

\* ------------------------------------------------------------- word list
SourceWords ==
  <<"knight", "write", "catch", "phone", "gnaw", "dream", "bread", "train">>

WORDS == SubSeq(SourceWords, 1, NumWords)

WordSet == {WORDS[i] : i \in 1..NumWords}

\* WORDS.length - 1 as a number
LastIndex == (NumWords - 1) * Denom

\* the number i
Num(i) == i * Denom

IsInteger(n) == n % Denom = 0

\* WORDS[n]: the word at position n, undefined for any other number
WordAt(n) ==
  IF IsInteger(n) /\ n >= 0 /\ n <= LastIndex
    THEN WORDS[(n \div Denom) + 1]
    ELSE "undefined"

\* WORDS.indexOf(w), as a position 0..length-1 or -1
IndexOf(w) ==
  IF w \in WordSet
    THEN (CHOOSE i \in 1..NumWords : WORDS[i] = w) - 1
    ELSE -1

Mark == {"correct", "incorrect", "skipped"}
Status == Mark \cup {"unset"}

\* ----------------------------------------------------------- JSON values
JNode(t, n, s, o) == [t |-> t, n |-> n, s |-> s, o |-> o]
Undefined == JNode("undefined", 0, "", <<>>)
JNull == JNode("null", 0, "", <<>>)
JNum(n) == JNode("num", n, "", <<>>)
JStr(s) == JNode("str", 0, s, <<>>)
JArr == JNode("arr", 0, "", <<>>)
JObj(o) == JNode("obj", 0, "", o)

\* v[k] for a value that is neither null nor undefined
GetProp(v, k) ==
  IF v.t = "obj" /\ k \in DOMAIN v.o THEN v.o[k] ELSE Undefined

\* v?.[k]
OptProp(v, k) ==
  IF v.t \in {"undefined", "null"} THEN Undefined ELSE GetProp(v, k)

\* Number(v) || 0
NumberOrZero(v) ==
  CASE v.t = "num" -> v.n
    [] v.t = "str" -> (IF v.s = "1" THEN Num(1) ELSE 0)
    [] OTHER -> 0

Min(a, b) == IF a < b THEN a ELSE b
Max(a, b) == IF a > b THEN a ELSE b

\* ------------------------------------------------------------ the store
\* the value kept under STORAGE_KEY: absent, or a text
RawItem(kind, val) == [kind |-> kind, val |-> val]
Absent == RawItem("absent", Undefined)
EmptyText == RawItem("empty", Undefined)
Garbage == RawItem("garbage", Undefined)
JsonText(v) == RawItem("json", v)

StoreShape(st, ix) == [isNull |-> FALSE, statuses |-> st, index |-> ix]
NullStore == [isNull |-> TRUE, statuses |-> <<>>, index |-> 0]

\* LoadStatus without the "skipped" alternative
LoadStatus_NoSkipped(parsed, w) ==
  LET s == OptProp(GetProp(parsed, "statuses"), w)
  IN IF s.t = "str" /\ s.s \in {"correct", "incorrect"} THEN s.s ELSE "unset"

\* one status as loadStore reads it from the parsed value
LoadStatus(parsed, w) ==
  LET s == OptProp(GetProp(parsed, "statuses"), w)
  IN IF s.t = "str" /\ s.s \in Mark THEN s.s ELSE "unset"

\* LoadIndex without the upper clamp
LoadIndex_NoMin(parsed) ==
  Max(NumberOrZero(GetProp(parsed, "index")), 0)

LoadIndex(parsed) ==
  Min(Max(NumberOrZero(GetProp(parsed, "index")), 0), LastIndex)

\* loadStore() on the stored item; getOk is FALSE when getItem throws
loadStore(item, getOk) ==
  IF ~getOk THEN NullStore
  ELSE IF item.kind \in {"absent", "empty"} THEN NullStore
  ELSE IF item.kind = "garbage" THEN NullStore
  ELSE IF item.val.t = "null" THEN NullStore
  ELSE StoreShape([w \in WordSet |-> LoadStatus(item.val, w)],
                  LoadIndex(item.val))

\* JSON.stringify({statuses, index})
Stringify(st, ix) ==
  JsonText(JObj([k \in {"statuses", "index"} |->
    IF k = "index" THEN JNum(ix)
    ELSE JObj([w \in DOMAIN st |->
           IF st[w] = "unset" THEN JNull ELSE JStr(st[w])])]))

\* saveStore that removes the item when setItem throws
saveStore_ClearsOnFailure(item, st, ix, setOk) ==
  IF setOk THEN Stringify(st, ix) ELSE Absent

\* saveStore(data): the item after the call; setOk is FALSE when setItem throws
saveStore(item, st, ix, setOk) ==
  IF setOk THEN Stringify(st, ix) ELSE item

\* ------------------------------------------------------------- the state
VARIABLES
  statuses,   \* App state: status of every key of the statuses object
  index,      \* App state: the current index, a number in units of 1/Denom
  view,       \* App state: "trainer" or "summary"
  stored,     \* localStorage item under STORAGE_KEY
  raw,        \* the item read by the statuses initialiser's loadStore call
  loaded,     \* what that loadStore call returned
  canThrow,   \* whether localStorage of this browser throws at all
  failures,   \* number of setItem calls that have thrown
  last,       \* the operation that produced this state
  response,   \* App.tsx: what fetch("./gwords.txt") came to
  words,      \* App.tsx state: the word list
  fStatuses,  \* App.tsx state: statuses, a Record<number, Status>
  fIndex      \* App.tsx state: index

trainerVars ==
  <<statuses, index, view, stored, raw, loaded, canThrow, failures, last>>

fetchVars == <<response, words, fStatuses, fIndex>>

vars == <<trainerVars, fetchVars>>

\* what the fetch comes to: still pending, rejected, a response that is
\* not ok, or an ok response with its text
Response(kind, txt) == [kind |-> kind, txt |-> txt]
Pending == Response("pending", <<>>)

\* useState initial values of the fetch-based App, the fetch not yet settled
FetchStart ==
  /\ response = Pending
  /\ words = <<>>
  /\ fStatuses = <<>>
  /\ fIndex = 0

NoItem == RawItem("none", Undefined)
Threw == RawItem("threw", Undefined)

\* base / cleared: every word null
base == [w \in WordSet |-> "unset"]

\* useState initialisers of App: statuses and index, each from its own
\* loadStore call
InitStatuses(ld) == IF ld.isNull THEN base ELSE ld.statuses
InitIndex(ld) == IF ld.isNull THEN 0 ELSE ld.index

\* ------------------------------------------------------ derived values
\* groupOf with skipped words counted as incorrect
groupOf_SkippedIncorrect(st, w) ==
  IF st[w] = "correct" THEN "correct"
  ELSE IF st[w] \in {"incorrect", "skipped"} THEN "incorrect"
  ELSE "notAnswered"

groupOf(st, w) ==
  IF st[w] = "correct" THEN "correct"
  ELSE IF st[w] = "incorrect" THEN "incorrect"
  ELSE "notAnswered"

\* the words of one group, pushed in the order of WORDS.forEach
RECURSIVE groupUpTo(_, _, _)
groupUpTo(st, g, n) ==
  IF n = 0 THEN <<>>
  ELSE IF groupOf(st, WORDS[n]) = g
    THEN Append(groupUpTo(st, g, n - 1), WORDS[n])
    ELSE groupUpTo(st, g, n - 1)

groups(st) ==
  [correct |-> groupUpTo(st, "correct", NumWords),
   incorrect |-> groupUpTo(st, "incorrect", NumWords),
   notAnswered |-> groupUpTo(st, "notAnswered", NumWords)]

\* answeredCount with the incorrect words subtracted
answeredCount_Minus(st) ==
  Len(groups(st).correct) - Len(groups(st).incorrect)

answeredCount(st) == Len(groups(st).correct) + Len(groups(st).incorrect)

\* Math.round(num / den) for num >= 0 and den > 0: halves round up
Round(num, den) == (2 * num + den) \div (2 * den)

\* Math.round((answered / total) * 100) in double arithmetic, for lists of up
\* to 100 words: the rounded exact quotient, except for 23/40 = 46/80, where
\* the product is 57.49999999999999 and rounds to 57
percentOf(answered, total) ==
  IF answered * 40 = 23 * total /\ total <= 100
    THEN 57
    ELSE Round(answered * 100, total)

\* a progressPercent that counts the correct words only
progressPercent_OfCorrect(st) ==
  percentOf(Len(groups(st).correct), NumWords)

progressPercent(st) == percentOf(answeredCount(st), NumWords)

allDone(st) == Len(groups(st).notAnswered) = 0

\* ---------------------------------------------------------- navigation
\* WORDS.findIndex(w => statuses[w] === null || statuses[w] === "skipped")
findRemaining(st) ==
  LET open == {i \in 1..NumWords : st[WORDS[i]] \in {"unset", "skipped"}}
  IN IF open = {} THEN -1
     ELSE (CHOOSE i \in open : \A j \in open : i <= j) - 1

\* nextIndex that always looks for the first unset/skipped word
nextIndex_FromStart(st, from) ==
  LET remaining == findRemaining(st)
  IN IF remaining = -1 THEN from ELSE Num(remaining)

nextIndex(st, from) ==
  IF from < LastIndex THEN from + Denom
  ELSE LET remaining == findRemaining(st)
       IN IF remaining = -1 THEN from ELSE Num(remaining)

\* a prev that wraps from 0 to the last position
prevIndex_Wraps(i) == IF i > 0 THEN i - Denom ELSE LastIndex

\* (i) => (i > 0 ? i - 1 : 0)
prevIndex(i) == IF i > 0 THEN i - Denom ELSE 0

\* a setStatuses that keeps the marked word only
setStatus_ClearsOthers(st, word, mark) ==
  [k \in DOMAIN st \cup {word} |-> IF k = word THEN mark ELSE "unset"]

\* ({ ...prev, [word]: mark })
setStatus(st, word, mark) ==
  [k \in DOMAIN st \cup {word} |-> IF k = word THEN mark ELSE st[k]]

\* ------------------------------------------------------- the save effect
\* useEffect(() => saveStore({statuses, index}), [statuses, index]): runs
\* after a render in which statuses or index changed
SaveEffect(changed, st, ix) ==
  IF changed
    THEN \E setOk \in BOOLEAN :
           /\ setOk \/ (canThrow /\ failures < MaxFailures)
           /\ stored' = saveStore(stored, st, ix, setOk)
           /\ failures' = IF setOk THEN failures ELSE failures + 1
    ELSE UNCHANGED <<stored, failures>>

Forget ==
  /\ raw' = NoItem
  /\ loaded' = NullStore
  /\ canThrow' = canThrow
  /\ UNCHANGED fetchVars

\* ------------------------------------------------- items found at start
\* what the store may hold for one key of a stored statuses object
StoredStatus == {JNull, JStr("correct"), JStr("incorrect"), JStr("skipped"),
                 JStr("bogus")}

\* stored statuses objects: any subset of the words, each with a valid or an
\* unknown status, with or without a key that is not a word
StoredStatuses ==
  UNION {[K -> StoredStatus] : K \in SUBSET WordSet}
  \cup UNION {[K \cup {"zebra"} -> {JStr("correct"), JStr("bogus")}]
                : K \in SUBSET WordSet}

\* stored index values: every number from -1 to WORDS.length in steps of
\* 1/Denom, and values that are not numbers
StoredIndex ==
  {JNum(n) : n \in (0 - Denom)..(LastIndex + Denom)}
  \cup {JStr("abc"), JStr("1"), JNull}

SessionObjects ==
  {JObj([k \in {"statuses", "index"} |->
          IF k = "index" THEN ix ELSE JObj(st)])
     : st \in StoredStatuses, ix \in StoredIndex}
  \cup {JObj([k \in {"statuses"} |-> JObj(st)]) : st \in StoredStatuses}

\* values that are not a serialized session object
OtherValues ==
  {JNull, JNum(Num(1)), JStr("abc"), JArr, JObj(<<>>),
   JObj([k \in {"index"} |-> JNum(Num(1))]),
   JObj([k \in {"index"} |-> JNum(LastIndex)])}

InitialItems ==
  {Absent, EmptyText, Garbage}
  \cup {JsonText(v) : v \in OtherValues}
  \cup {JsonText(v) : v \in SessionObjects}

\* ------------------------------------------------------------- actions
\* App is mounted on the item found in the store: both initialisers run,
\* then the save effect of the first render
Mounted(item, getOk1, getOk2, setOk, fails) ==
  LET ld == loadStore(item, getOk1)
      st == InitStatuses(ld)
      ix == InitIndex(loadStore(item, getOk2))
  IN [statuses |-> st, index |-> ix, view |-> "trainer",
      stored |-> saveStore(item, st, ix, setOk),
      raw |-> IF getOk1 THEN item ELSE Threw,
      loaded |-> ld,
      failures |-> IF setOk THEN fails ELSE fails + 1,
      last |-> "mount"]

\* App starts on any stored item, in a browser whose store does not throw
Init ==
  \E item \in InitialItems :
    LET m == Mounted(item, TRUE, TRUE, TRUE, 0)
    IN /\ canThrow = FALSE
       /\ FetchStart
       /\ statuses = m.statuses
       /\ index = m.index
       /\ view = m.view
       /\ stored = m.stored
       /\ raw = m.raw
       /\ loaded = m.loaded
       /\ failures = m.failures
       /\ last = m.last

\* items of a store the trainer has not written yet
FreshItems == {Absent, EmptyText, Garbage}

\* App starts in a browser whose getItem and setItem may throw
InitFailing ==
  \E item \in FreshItems, getOk1 \in BOOLEAN, getOk2 \in BOOLEAN,
     setOk \in BOOLEAN :
    LET m == Mounted(item, getOk1, getOk2, setOk, 0)
    IN /\ setOk \/ 0 < MaxFailures
       /\ canThrow = TRUE
       /\ FetchStart
       /\ statuses = m.statuses
       /\ index = m.index
       /\ view = m.view
       /\ stored = m.stored
       /\ raw = m.raw
       /\ loaded = m.loaded
       /\ failures = m.failures
       /\ last = m.last

\* the page is loaded again: App is mounted on the stored item
Reload(getOk1, getOk2, setOk) ==
  LET m == Mounted(stored, getOk1, getOk2, setOk, failures)
  IN /\ setOk \/ (canThrow /\ failures < MaxFailures)
     /\ (getOk1 /\ getOk2) \/ canThrow
     /\ canThrow' = canThrow
     /\ UNCHANGED fetchVars
     /\ statuses' = m.statuses
     /\ index' = m.index
     /\ view' = m.view
     /\ stored' = m.stored
     /\ raw' = m.raw
     /\ loaded' = m.loaded
     /\ failures' = m.failures
     /\ last' = m.last

handleMark(mark) ==
  /\ view = "trainer"
  /\ LET word == WordAt(index)
         ni == nextIndex(statuses, index)
     IN /\ statuses' = setStatus(statuses, word, mark)
        /\ IF ni = index
             THEN view' = "summary" /\ index' = index
             ELSE index' = ni /\ view' = view
        /\ SaveEffect(TRUE, statuses', index')
  /\ last' = "mark"
  /\ Forget

next ==
  /\ view = "trainer"
  /\ LET ni == nextIndex(statuses, index)
     IN /\ IF ni = index
             THEN view' = "summary" /\ index' = index
             ELSE index' = ni /\ view' = view
        /\ SaveEffect(ni # index, statuses, index')
  /\ statuses' = statuses
  /\ last' = "next"
  /\ Forget

prev ==
  /\ view = "trainer"
  /\ index' = prevIndex(index)
  /\ SaveEffect(index' # index, statuses, index')
  /\ UNCHANGED <<statuses, view>>
  /\ last' = "prev"
  /\ Forget

\* resetAll without setIndex(0)
resetAll_KeepIndex ==
  /\ statuses' = base
  /\ index' = index
  /\ view' = "trainer"
  /\ SaveEffect(TRUE, statuses', index')
  /\ last' = "reset"
  /\ Forget

resetAll ==
  /\ statuses' = base
  /\ index' = 0
  /\ view' = "trainer"
  /\ SaveEffect(TRUE, statuses', index')
  /\ last' = "reset"
  /\ Forget

\* jumpToWord without the i >= 0 test
jumpToWord_NoGuard(w) ==
  /\ view = "summary"
  /\ index' = Num(IndexOf(w)) /\ view' = "trainer"
  /\ SaveEffect(index' # index, statuses, index')
  /\ statuses' = statuses
  /\ last' = "jump"
  /\ Forget

\* a word of the summary is selected, or any other string is passed
jumpToWord(w) ==
  /\ view = "summary"
  /\ LET i == IndexOf(w)
     IN IF i >= 0
          THEN index' = Num(i) /\ view' = "trainer"
          ELSE UNCHANGED <<index, view>>
  /\ SaveEffect(index' # index, statuses, index')
  /\ statuses' = statuses
  /\ last' = "jump"
  /\ Forget

\* the Summary / Back to Practice button
toggleView ==
  /\ view' = IF view = "trainer" THEN "summary" ELSE "trainer"
  /\ UNCHANGED <<statuses, index, stored, failures>>
  /\ last' = "toggle"
  /\ Forget

Next ==
  \/ \E mark \in Mark : handleMark(mark)
  \/ next
  \/ prev
  \/ resetAll
  \/ \E w \in WordSet \cup {"zebra"} : jumpToWord(w)
  \/ toggleView
  \/ \E getOk1 \in BOOLEAN, getOk2 \in BOOLEAN, setOk \in BOOLEAN :
       Reload(getOk1, getOk2, setOk)

Spec == Init /\ [][Next]_vars

SpecFailing == InitFailing /\ [][Next]_vars

\* ------------------------------------------- the fetch-based trainer
\* lines of gwords.txt: blank ones, and words with and without spaces around
BlankLines == {"", "  "}
Lines == BlankLines \cup {"cat", " dog "}

\* l.trim()
Trim(l) ==
  CASE l = "  " -> ""
    [] l = " dog " -> "dog"
    [] OTHER -> l

\* .slice(0, 100)
WordCap == 100

\* parseWords without the filter of empty lines
RECURSIVE parseUpTo_NoFilter(_, _)
parseUpTo_NoFilter(txt, n) ==
  IF n = 0 THEN <<>>
  ELSE Append(parseUpTo_NoFilter(txt, n - 1), Trim(txt[n]))

\* the trimmed non-empty lines among the first n lines of txt, in order
RECURSIVE parseUpTo(_, _)
parseUpTo(txt, n) ==
  IF n = 0 THEN <<>>
  ELSE IF Trim(txt[n]) # ""
    THEN Append(parseUpTo(txt, n - 1), Trim(txt[n]))
    ELSE parseUpTo(txt, n - 1)

parseWords(txt) ==
  LET ws == parseUpTo(txt, Len(txt))
  IN SubSeq(ws, 1, Min(Len(ws), WordCap))

\* the texts gwords.txt may hold
Texts == UNION {[1..n -> Lines] : n \in 0..MaxLines}

\* the ways the fetch settles
Responses ==
  {Response("rejected", <<>>), Response("notOk", <<>>)}
  \cup {Response("ok", txt) : txt \in Texts}

\* loadTxt(): the words it resolves to, or <<>> when it throws
loadTxt(r) ==
  IF r.kind # "ok" THEN <<>> ELSE parseWords(r.txt)

\* statuses[i], undefined for a position never marked
StatusAt(st, i) == IF i \in DOMAIN st THEN st[i] ELSE "undefined"

\* goToNextUnfinished(start): the index it sets, or the current one when it
\* sets none
goToNextUnfinished(st, len, start, cur) ==
  LET after == {i \in (start + 1)..(len - 1) : StatusAt(st, i) # "correct"}
      before == {i \in 0..start : StatusAt(st, i) # "correct"}
  IN IF after # {} THEN CHOOSE i \in after : \A j \in after : i <= j
     ELSE IF before # {} THEN CHOOSE i \in before : \A j \in before : i <= j
     ELSE cur

\* goPrev: (i > 0 ? i - 1 : words.length - 1)
goPrevIndex(i, len) == IF i > 0 THEN i - 1 ELSE len - 1

\* the promise of loadTxt settles: setWords on success, console.error
\* otherwise
FetchSettles(r) ==
  /\ response = Pending
  /\ response' = r
  /\ words' = loadTxt(r)
  /\ UNCHANGED <<fStatuses, fIndex>>
  /\ UNCHANGED trainerVars

\* the buttons are rendered only when words is not empty
Rendered == Len(words) # 0

updateStatus(status) ==
  /\ Rendered
  /\ fStatuses' = [i \in DOMAIN fStatuses \cup {fIndex} |->
                     IF i = fIndex THEN status ELSE fStatuses[i]]
  /\ fIndex' = IF status = "correct"
                 THEN goToNextUnfinished(fStatuses, Len(words), fIndex, fIndex)
                 ELSE fIndex
  /\ UNCHANGED <<response, words>>
  /\ UNCHANGED trainerVars

goPrev ==
  /\ Rendered
  /\ fIndex' = goPrevIndex(fIndex, Len(words))
  /\ UNCHANGED <<response, words, fStatuses>>
  /\ UNCHANGED trainerVars

goNext ==
  /\ Rendered
  /\ fIndex' = goToNextUnfinished(fStatuses, Len(words), fIndex, fIndex)
  /\ UNCHANGED <<response, words, fStatuses>>
  /\ UNCHANGED trainerVars

\* the Summary button: setIndex(0)
fetchSummary ==
  /\ Rendered
  /\ fIndex' = 0
  /\ UNCHANGED <<response, words, fStatuses>>
  /\ UNCHANGED trainerVars

\* the Reset button: setStatuses({}); setIndex(0)
fetchReset ==
  /\ Rendered
  /\ fStatuses' = <<>>
  /\ fIndex' = 0
  /\ UNCHANGED <<response, words>>
  /\ UNCHANGED trainerVars

\* the persistent trainer as mounted on an empty store, left alone
InitFetch ==
  LET m == Mounted(Absent, TRUE, TRUE, TRUE, 0)
  IN /\ canThrow = FALSE
     /\ FetchStart
     /\ statuses = m.statuses
     /\ index = m.index
     /\ view = m.view
     /\ stored = m.stored
     /\ raw = m.raw
     /\ loaded = m.loaded
     /\ failures = m.failures
     /\ last = m.last

NextFetch ==
  \/ \E r \in Responses : FetchSettles(r)
  \/ \E status \in Mark : updateStatus(status)
  \/ goPrev
  \/ goNext
  \/ fetchSummary
  \/ fetchReset

SpecFetch == InitFetch /\ [][NextFetch]_vars

\* ------------------------------------------------------------ properties
ValidIndex(n) == IsInteger(n) /\ n >= 0 /\ n <= LastIndex

Open(st, w) == st[w] \in {"unset", "skipped"}

AnyOpen(st) == \E w \in WordSet : Open(st, w)

\* positions 0..NumWords-1 in the order of a forward scan that starts at the
\* position after p and wraps to the start of the list; p itself comes last
ScanRank(p, q) == (q - p - 1 + NumWords) % NumWords

\* the nearest unset/skipped position in that scan, as a number
NearestOpen(st, p) ==
  LET open == {q \in 0..(NumWords - 1) : Open(st, WORDS[q + 1])}
  IN Num(CHOOSE q \in open :
           \A r \in open : ScanRank(p, q) <= ScanRank(p, r))

\* C1: after mark(w, correct) on the current word w, the status of w is
\* correct and, if any word is still unset or skipped, the index points to
\* the nearest unset/skipped word in a forward scan from the position after
\* w, wrapping to the start of the list.
C1_MarkAdvancesToNearestOpen ==
  [][(handleMark("correct") /\ ValidIndex(index)) =>
       /\ statuses'[WordAt(index)] = "correct"
       /\ AnyOpen(statuses') =>
            index' = NearestOpen(statuses', index \div Denom)]_vars

\* C2: a mark that makes the session complete (no word unset or skipped
\* after it) leaves the index unchanged.
C2_CompletingMarkKeepsIndex ==
  [][((\E mark \in Mark : handleMark(mark)) /\ ValidIndex(index)
        /\ AnyOpen(statuses) /\ ~AnyOpen(statuses')) =>
       index' = index]_vars

\* C3: in every reachable state statuses has exactly one entry for every
\* word of the list, each one of the four statuses, and the index is an
\* integer in [0, wordCount-1].
C3_WellFormed ==
  /\ DOMAIN statuses = WordSet
  /\ \A w \in WordSet : statuses[w] \in Status
  /\ ValidIndex(index)

ValidState(st, ix) ==
  /\ DOMAIN st = WordSet
  /\ \A w \in WordSet : st[w] \in Status
  /\ ValidIndex(ix)

\* C4: for every valid session state, loadStore() run after saveStore(state)
\* returns the same statuses for every word and the same index.
C4_RoundTrip ==
  ValidState(statuses, index) =>
    LET ld == loadStore(saveStore(stored, statuses, index, TRUE), TRUE)
    IN /\ ~ld.isNull
       /\ \A w \in WordSet : ld.statuses[w] = statuses[w]
       /\ DOMAIN ld.statuses = WordSet
       /\ ld.index = index

\* a state loaded back from its own saved form, with unset and skipped words
\* and the index at the last position
C4_Witness ==
  /\ last = "mount"
  /\ ValidState(statuses, index)
  /\ raw = Stringify(statuses, index)
  /\ ~loaded.isNull
  /\ index = LastIndex
  /\ \E w \in WordSet : statuses[w] = "unset"
  /\ \E w \in WordSet : statuses[w] = "skipped"

RawIsSession ==
  /\ raw.kind = "json"
  /\ raw.val.t = "obj"
  /\ "statuses" \in DOMAIN raw.val.o

RawNotSession ==
  \/ raw.kind \in {"absent", "empty", "garbage"}
  \/ raw.kind = "json" /\ ~RawIsSession

\* C5: loadStore() returns null for every stored value that is absent,
\* empty, not JSON, or JSON that is not a session object {statuses, index},
\* and App then starts from the default state (all unset, index 0).
C5_LoadNullOnMalformed ==
  (last = "mount" /\ RawNotSession) =>
    /\ loaded.isNull
    /\ statuses = [w \in WordSet |-> "unset"]
    /\ index = 0

\* C6: loadStore() on a stored session object drops the keys that are not
\* words, gives unset to every word whose stored status is missing or not
\* one of correct/incorrect/skipped, and clamps a stored index below 0,
\* above wordCount-1 or not a number into [0, wordCount-1].
C6_LoadNormalizes ==
  (last = "mount" /\ RawIsSession) =>
    LET so == raw.val.o["statuses"].o
        hasIx == "index" \in DOMAIN raw.val.o
        ix == IF hasIx THEN raw.val.o["index"] ELSE Undefined
    IN /\ ~loaded.isNull
       /\ DOMAIN loaded.statuses = WordSet
       /\ \A w \in WordSet :
            loaded.statuses[w] =
              IF w \in DOMAIN so /\ so[w] \in {JStr(m) : m \in Mark}
                THEN so[w].s ELSE "unset"
       /\ loaded.index >= 0 /\ loaded.index <= LastIndex
       /\ (ix.t = "num" /\ ix.n < 0) => loaded.index = 0
       /\ (ix.t = "num" /\ ix.n > LastIndex) => loaded.index = LastIndex

\* a stored object with a key that is not a word, an unknown status and an
\* index above the last position has been loaded
C6_Witness ==
  /\ last = "mount"
  /\ RawIsSession
  /\ "zebra" \in DOMAIN raw.val.o["statuses"].o
  /\ \E w \in WordSet :
       /\ w \in DOMAIN raw.val.o["statuses"].o
       /\ raw.val.o["statuses"].o[w] = JStr("bogus")
       /\ loaded.statuses[w] = "unset"
  /\ "index" \in DOMAIN raw.val.o
  /\ raw.val.o["index"] = JNum(LastIndex + Denom)
  /\ loaded.index = LastIndex

\* C9: one reset gives all words unset and index 0 from every state, and a
\* reset right after a reset changes nothing.
C9_ResetIdempotent ==
  [][/\ resetAll =>
          /\ statuses' = [w \in WordSet |-> "unset"]
          /\ index' = 0
          /\ view' = "trainer"
     /\ (last = "reset" /\ resetAll) =>
          /\ statuses' = statuses
          /\ index' = index
          /\ view' = view]_vars

\* a reset has run and its state has been saved
C9_Witness ==
  /\ last = "reset"
  /\ statuses = base /\ index = 0 /\ view = "trainer"
  /\ stored = Stringify(base, 0)

Occurrences(seq, w) == Cardinality({i \in 1..Len(seq) : seq[i] = w})

\* seq lists its words in the order of WORDS
InListOrder(seq) ==
  \A i \in 1..Len(seq), j \in 1..Len(seq) :
    i < j => IndexOf(seq[i]) < IndexOf(seq[j])

Elements(seq) == {seq[i] : i \in 1..Len(seq)}

\* C10: groups() partitions the word list into correct, incorrect and
\* notAnswered, each in word-list order; notAnswered holds exactly the
\* unset and skipped words; allDone iff notAnswered is empty iff no word is
\* unset or skipped; with all words correct, groups() is
\* {correct: all words, incorrect: [], notAnswered: []} and allDone holds.
C10_GroupsPartition ==
  LET g == groups(statuses)
  IN /\ \A w \in WordSet :
          Occurrences(g.correct, w) + Occurrences(g.incorrect, w)
            + Occurrences(g.notAnswered, w) = 1
     /\ Len(g.correct) + Len(g.incorrect) + Len(g.notAnswered) = NumWords
     /\ InListOrder(g.correct)
     /\ InListOrder(g.incorrect)
     /\ InListOrder(g.notAnswered)
     /\ Elements(g.correct) = {w \in WordSet : statuses[w] = "correct"}
     /\ Elements(g.incorrect) = {w \in WordSet : statuses[w] = "incorrect"}
     /\ Elements(g.notAnswered) = {w \in WordSet : Open(statuses, w)}
     /\ allDone(statuses) <=> (g.notAnswered = <<>>)
     /\ allDone(statuses) <=> ~AnyOpen(statuses)
     /\ (\A w \in WordSet : statuses[w] = "correct") =>
          /\ g = [correct |-> WORDS, incorrect |-> <<>>, notAnswered |-> <<>>]
          /\ allDone(statuses)

\* the last word has just been marked and every word is correct
C10_Witness ==
  /\ last = "mark"
  /\ \A w \in WordSet : statuses[w] = "correct"
  /\ groups(statuses).correct = WORDS
  /\ allDone(statuses)

\* C7: with a working store, after mark/next/prev/jump the stored entry is
\* the serialized in-memory statuses and index, and a reload restores the
\* status of every word and the index that were in effect before it.
C7_ReloadRestores ==
  [][/\ (failures' = 0 /\ last' \in {"mark", "next", "prev", "jump"}) =>
          stored' = Stringify(statuses', index')
     /\ (failures = 0 /\ Reload(TRUE, TRUE, TRUE)) =>
          /\ \A w \in WordSet : statuses'[w] = statuses[w]
          /\ index' = index]_vars

\* the in-memory effect of the step just taken is the one its handler has
\* with a working store
SameAsWorking ==
  CASE last' = "mark" ->
         /\ \E mark \in Mark :
              statuses' = setStatus(statuses, WordAt(index), mark)
         /\ index' = nextIndex(statuses, index)
         /\ view' = IF index' = index THEN "summary" ELSE view
    [] last' = "next" ->
         /\ statuses' = statuses
         /\ index' = nextIndex(statuses, index)
         /\ view' = IF index' = index THEN "summary" ELSE view
    [] last' = "prev" ->
         /\ statuses' = statuses
         /\ index' = prevIndex(index)
         /\ view' = view
    [] last' = "reset" ->
         /\ statuses' = [w \in WordSet |-> "unset"]
         /\ index' = 0
         /\ view' = "trainer"
    [] last' = "jump" ->
         /\ statuses' = statuses
         /\ \/ \E w \in WordSet : index' = Num(IndexOf(w)) /\ view' = "trainer"
            \/ index' = index /\ view' = view
    [] last' = "toggle" ->
         /\ statuses' = statuses
         /\ index' = index
         /\ view' # view
    [] OTHER -> TRUE

\* what App starts from when both loadStore calls can read the store
MountedOnWorkingStore ==
  /\ statuses' = InitStatuses(loadStore(stored, TRUE))
  /\ index' = InitIndex(loadStore(stored, TRUE))

\* what App starts from when getItem throws in the calls named by the flags
MountedWithFallback(getOk1, getOk2) ==
  /\ statuses' = IF getOk1 THEN InitStatuses(loadStore(stored, TRUE))
                 ELSE [w \in WordSet |-> "unset"]
  /\ index' = IF getOk2 THEN InitIndex(loadStore(stored, TRUE)) ELSE 0
  /\ getOk1 <=> raw' # Threw
  /\ ~getOk1 => loaded'.isNull

\* C8 as stated: whether setItem or getItem throws, statuses and index are
\* what they would be with a working store, and a failed write leaves the
\* stored entry unchanged.
C8_FailingStoreNoEffect ==
  [][/\ failures' > failures => stored' = stored
     /\ SameAsWorking
     /\ last' = "mount" => MountedOnWorkingStore]_vars

\* every handler the current view offers can run
ActionsAccepted ==
  /\ ENABLED resetAll
  /\ ENABLED toggleView
  /\ view = "trainer" =>
       /\ \A mark \in Mark : ENABLED handleMark(mark)
       /\ ENABLED next
       /\ ENABLED prev
  /\ view = "summary" => \A w \in WordSet : ENABLED jumpToWord(w)

\* C8 amended: a setItem that throws leaves the stored entry unchanged and
\* the in-memory statuses, index and view are what the handler gives with a
\* working store; a getItem that throws makes loadStore return null, so
\* that the initialiser that called it starts from its default (all unset,
\* index 0); every later action is still accepted.
C8_FailingStoreAmended ==
  /\ []ActionsAccepted
  /\ [][/\ failures' > failures => stored' = stored
        /\ SameAsWorking
        /\ last' = "mount" =>
             \E getOk1 \in BOOLEAN, getOk2 \in BOOLEAN :
               MountedWithFallback(getOk1, getOk2)]_vars

\* a mark has run whose setItem threw: the store still holds the earlier
\* state and the trainer goes on
C8_Witness ==
  /\ last = "mark"
  /\ failures > 0
  /\ stored.kind = "json"
  /\ stored # Stringify(statuses, index)
  /\ ActionsAccepted

\* C11: in a step that is not a reset and in which every status that
\* changes goes from unset to correct or incorrect, progressPercent does not
\* decrease.
C11_ProgressMonotone ==
  [][(/\ last' # "reset"
      /\ \A w \in WordSet :
           statuses'[w] # statuses[w] =>
             statuses[w] = "unset" /\ statuses'[w] \in {"correct", "incorrect"})
       => progressPercent(statuses') >= progressPercent(statuses)]_vars

\* a mark has raised the progress to a value strictly between 0 and 100,
\* no word being skipped
C11_Witness ==
  /\ last = "mark"
  /\ \A w \in WordSet : statuses[w] # "skipped"
  /\ \E w \in WordSet : statuses[w] = "incorrect"
  /\ progressPercent(statuses) > 0
  /\ progressPercent(statuses) < 100

\* the statuses of the scenario: all unset, then word 0 correct, then word 1
\* skipped, then word 2 correct
Scenario0 == [w \in WordSet |-> "unset"]
Scenario1 == [Scenario0 EXCEPT ![WORDS[1]] = "correct"]
Scenario2 == [Scenario1 EXCEPT ![WORDS[2]] = "skipped"]
Scenario3 == [Scenario2 EXCEPT ![WORDS[3]] = "correct"]

\* C12: from all unset at index 0, marking word 0 correct moves the index to
\* position 1; then marking word 1 skipped moves it to position 2; then
\* marking word 2 correct leaves word 1 skipped, so that allDone is false and
\* notAnswered is word 1 followed by the words after word 2 (none on a
\* three-word list).
C12_Scenario ==
  [][/\ (statuses = Scenario0 /\ index = Num(0) /\ handleMark("correct")) =>
          statuses' = Scenario1 /\ index' = Num(1)
     /\ (statuses = Scenario1 /\ index = Num(1) /\ handleMark("skipped")) =>
          statuses' = Scenario2 /\ index' = Num(2)
     /\ (statuses = Scenario2 /\ index = Num(2) /\ handleMark("correct")) =>
          /\ statuses' = Scenario3
          /\ statuses'[WORDS[2]] = "skipped"
          /\ ~allDone(statuses')
          /\ groups(statuses').notAnswered =
               <<WORDS[2]>> \o SubSeq(WORDS, 4, NumWords)]_vars

\* the third mark of the scenario has been made
C12_Witness ==
  /\ last = "mark"
  /\ statuses = Scenario3
  /\ ~allDone(statuses)
  /\ groups(statuses).notAnswered = <<WORDS[2]>> \o SubSeq(WORDS, 4, NumWords)
  /\ groups(statuses).correct = <<WORDS[1], WORDS[3]>>

\* the strings jumpToWord is called with: the words and one unknown word
JumpTargets == WordSet \cup {"zebra"}

\* C13: jumpToWord(w) sets the index to the position of w when w is in the
\* list; for an unknown word the index, the statuses and the view are
\* unchanged and the call is accepted; in both cases no status changes.
C13_JumpToWord ==
  /\ [](view = "summary" => ENABLED jumpToWord("zebra"))
  /\ [][\A w \in JumpTargets :
          jumpToWord(w) =>
            /\ statuses' = statuses
            /\ w \in WordSet => index' = Num(IndexOf(w)) /\ WordAt(index') = w
            /\ w \notin WordSet =>
                 index' = index /\ view' = view /\ stored' = stored]_vars

\* an unknown word has been passed in the summary view of a session in
\* progress
C13_Witness ==
  /\ last = "jump"
  /\ view = "summary"
  /\ index # Num(0)
  /\ \E w \in WordSet : statuses[w] # "unset"

\* the load of the word source has failed: the fetch rejected, the response
\* was not ok, or the file holds no non-blank line
LoadFailed ==
  \/ response.kind \in {"rejected", "notOk"}
  \/ /\ response.kind = "ok"
     /\ \A n \in 1..Len(response.txt) : response.txt[n] \in BlankLines

\* C14: once the load of the word source has failed, the fetch-based trainer
\* stays in its loading state: words is empty, statuses and index keep their
\* initial values, and no step (no second load, no mark, prev, next, summary
\* or reset) is possible.
C14_LoadFailureIsFinal ==
  [](LoadFailed =>
       /\ words = <<>>
       /\ ~Rendered
       /\ fStatuses = <<>>
       /\ fIndex = 0
       /\ ~ENABLED NextFetch)

\* the file was fetched and holds blank lines only
C14_Witness ==
  /\ response.kind = "ok"
  /\ Len(response.txt) > 1
  /\ LoadFailed
  /\ \E n \in 1..Len(response.txt) : response.txt[n] = "  "

\* a step of prev, next, jumpToWord or the view toggle
Navigates ==
  \/ prev
  \/ next
  \/ \E w \in JumpTargets : jumpToWord(w)
  \/ toggleView

\* C15: a word's status changes only to correct/incorrect/skipped by a mark
\* made while that word is the current word, or to unset by a reset; a mark
\* sets the status of the current word to the outcome given, whatever the
\* status was, and leaves every other word's status unchanged; a mark with
\* any outcome is accepted in the trainer view; prev, next, jumpToWord and
\* the view toggle change no status.
C15_StatusMachine ==
  /\ [](view = "trainer" => \A m \in Mark : ENABLED handleMark(m))
  /\ [][/\ \A w \in WordSet :
             statuses'[w] # statuses[w] =>
               \/ /\ statuses'[w] \in Mark
                  /\ \E m \in Mark : handleMark(m) /\ statuses'[w] = m
                  /\ WordAt(index) = w
               \/ /\ statuses'[w] = "unset"
                  /\ resetAll
        /\ \A m \in Mark :
             handleMark(m) =>
               /\ ValidIndex(index) => statuses'[WordAt(index)] = m
               /\ \A w \in WordSet \ {WordAt(index)} :
                    statuses'[w] = statuses[w]
        /\ resetAll => \A w \in WordSet : statuses'[w] = "unset"
        /\ Navigates => statuses' = statuses]_vars

\* a mark has been made in a session that holds a skipped, an incorrect and
\* a correct word
C15_Witness ==
  /\ last = "mark"
  /\ \E w \in WordSet : statuses[w] = "skipped"
  /\ \E w \in WordSet : statuses[w] = "incorrect"
  /\ \E w \in WordSet : statuses[w] = "correct"

\* C16: whenever no word is unset or skipped, next() switches the view to
\* summary and leaves the index unchanged, from every position of the list.
C16_NextOnCompleteOpensSummary ==
  [][(next /\ ValidIndex(index) /\ ~AnyOpen(statuses)) =>
       view' = "summary" /\ index' = index]_vars

\* the positions of the fetched list whose status is not correct
NotCorrect(st, len) == {i \in 0..(len - 1) : StatusAt(st, i) # "correct"}

\* the distance from position from forward to position i, wrapping to the
\* start: 1 for the next position, len for from itself
WrapRank(from, i, len) == IF i > from THEN i - from ELSE i - from + len

\* C17: updateStatus(outcome), for every outcome, records the outcome for the
\* current index and moves the index to the nearest position strictly after
\* it, wrapping to the start, whose status is not correct; the index stays
\* only when there is no other such position.
C17_UpdateStatusAdvances ==
  [][\A outcome \in Mark :
       updateStatus(outcome) =>
         LET others == NotCorrect(fStatuses', Len(words)) \ {fIndex}
         IN /\ StatusAt(fStatuses', fIndex) = outcome
            /\ IF others = {}
                 THEN fIndex' = fIndex
                 ELSE /\ fIndex' \in others
                      /\ \A j \in others :
                           WrapRank(fIndex, fIndex', Len(words))
                             <= WrapRank(fIndex, j, Len(words))]_vars

\* C18: prev moves the index back by one when index > 0 and stays at 0 when
\* the index is 0, without changing any status or the view; and goPrev of
\* the fetch-based trainer, on a list of the same length, gives the same
\* index from the same index.
C18_PrevSamePolicy ==
  [][prev =>
       /\ index > 0 => index' = index - Num(1)
       /\ index = 0 => index' = 0
       /\ statuses' = statuses
       /\ view' = view
       /\ ValidIndex(index) =>
            index' = Num(goPrevIndex(index \div Denom, NumWords))]_vars

\* C18 (amended): prev moves the index back by one when index > 0 and stays
\* at 0 when the index is 0, without changing any status or the view; goPrev
\* of the fetch-based trainer, on a list of the same length, gives the same
\* index from every position above 0, and from position 0 it gives the last
\* position where prev gives 0.
C18_PrevPolicies ==
  [][prev =>
       /\ index > 0 => index' = index - Num(1)
       /\ index = 0 => index' = 0
       /\ statuses' = statuses
       /\ view' = view
       /\ (ValidIndex(index) /\ index > 0) =>
            index' = Num(goPrevIndex(index \div Denom, NumWords))
       /\ index = 0 =>
            /\ Num(goPrevIndex(index \div Denom, NumWords)) = LastIndex
            /\ NumWords > 1 =>
                 index' # Num(goPrevIndex(index \div Denom, NumWords))]_vars

\* prev has been called at position 0
C18_Witness ==
  /\ last = "prev"
  /\ index = 0
  /\ view = "trainer"
  /\ goPrevIndex(index \div Denom, NumWords) = NumWords - 1

\* C19: a mark or next() switches the view from trainer to summary only when
\* no word is unset or skipped after that action.
C19_SummaryOnlyWhenComplete ==
  [][(/\ (\E m \in Mark : handleMark(m)) \/ next
      /\ ValidIndex(index)
      /\ view = "trainer"
      /\ view' = "summary")
       => ~AnyOpen(statuses')]_vars

\* the percentage for every list of 1 to WordCap words and every number of
\* answered words: within 0..100, 100 only when every word is answered, and
\* 0 when none is
PercentSweep ==
  \A total \in 1..WordCap :
    \A answered \in 0..total :
      /\ percentOf(answered, total) \in 0..100
      /\ percentOf(answered, total) = 100 <=> answered = total
      /\ answered = 0 => percentOf(answered, total) = 0

\* C20: for every list of 1 to 100 words and in every reachable state,
\* progressPercent is an integer from 0 to 100, it is 100 exactly when no word
\* is unset or skipped, and it is 0 after a reset.
C20_ProgressPercentRange ==
  /\ PercentSweep
  /\ progressPercent(statuses) \in 0..100
  /\ progressPercent(statuses) = 100 <=> ~AnyOpen(statuses)
  /\ last = "reset" => progressPercent(statuses) = 0

\* the last open word has been marked in a session that holds an incorrect
\* word
C20_Witness ==
  /\ last = "mark"
  /\ ~AnyOpen(statuses)
  /\ \E w \in WordSet : statuses[w] = "incorrect"
  /\ progressPercent(statuses) = 100

====
